---- MODULE Spec2Model ----
(***************************************************************************)
(* Model of compile_csv_files_from_zip (src/myscript.py): the archive is   *)
(* extracted to a scratch directory, the extracted files are grouped by    *)
(* base name, each base name is read and combined in sorted order, and the *)
(* combined tables are concatenated and reconciled against the running     *)
(* source row counter.                                                     *)
(*                                                                         *)
(* File names are sequences of one-character strings, so that startswith,  *)
(* endswith, str.replace and string comparison are computed on characters. *)
(* A path is <<directory, file name>>.  A table is the sequence of its     *)
(* rows; a row is <<path, index>>, the index-th data row of that file.     *)
(***************************************************************************)
EXTENDS Integers, Sequences, FiniteSets, TLC

\* ------------------------------------------------------------------ bounds
MaxFiles == 3
MaxRows == 1

\* ----------------------------------------------------------- str helpers
DETAIL_SUFFIX == <<"_", "e", "_", "d", "e", "t", "a", "i", "l", ".", "c", "s", "v">>
SUP_SUFFIX == <<"_", "e", "_", "s", "u", "p", ".", "c", "s", "v">>
RESERVED_PREFIX == <<".", "_">>

CodePoint ==
    "." :> 46 @@ "W" :> 87 @@ "X" :> 88 @@ "Y" :> 89 @@ "Z" :> 90 @@ "_" :> 95
    @@ "a" :> 97 @@ "c" :> 99 @@ "d" :> 100 @@ "e" :> 101 @@ "i" :> 105
    @@ "l" :> 108 @@ "n" :> 110 @@ "o" :> 111 @@ "p" :> 112 @@ "s" :> 115
    @@ "t" :> 116 @@ "u" :> 117 @@ "v" :> 118 @@ "x" :> 120

StartsWith(s, p) ==
    /\ Len(p) <= Len(s)
    /\ SubSeq(s, 1, Len(p)) = p

EndsWith(s, p) ==
    /\ Len(p) <= Len(s)
    /\ SubSeq(s, Len(s) - Len(p) + 1, Len(s)) = p

\* str.replace(old, ''): every non-overlapping occurrence of old, scanning
\* from the left, is removed.
RECURSIVE Replace(_, _)
Replace(s, old) ==
    IF Len(s) < Len(old) THEN s
    ELSE IF SubSeq(s, 1, Len(old)) = old
         THEN Replace(SubSeq(s, Len(old) + 1, Len(s)), old)
         ELSE <<Head(s)>> \o Replace(Tail(s), old)

\* str < str: code point order, a proper prefix is smaller.
RECURSIVE StrLess(_, _)
StrLess(a, b) ==
    IF b = <<>> THEN FALSE
    ELSE IF a = <<>> THEN TRUE
    ELSE IF Head(a) = Head(b) THEN StrLess(Tail(a), Tail(b))
    ELSE CodePoint[Head(a)] < CodePoint[Head(b)]

\* ------------------------------------------------------------- the inputs
NameXDetail == <<"X">> \o DETAIL_SUFFIX
NameXSup == <<"X">> \o SUP_SUFFIX
NameYDetail == <<"Y">> \o DETAIL_SUFFIX
NameZSup == <<"Z">> \o SUP_SUFFIX
NameDotDetail == RESERVED_PREFIX \o <<"W">> \o DETAIL_SUFFIX
NameNotes == <<"n", "o", "t", "e", "s", ".", "t", "x", "t">>
NameXTwice == <<"X">> \o DETAIL_SUFFIX \o DETAIL_SUFFIX

\* Two sibling directories under the scratch root.  The first five names
\* are ones the walk can group; the last two are ones it must pass over.
Slots ==
    { <<"a", NameXDetail>>, <<"a", NameXSup>>, <<"b", NameXDetail>>,
      <<"b", NameYDetail>>, <<"b", NameXTwice>>,
      <<"a", NameDotDetail>>, <<"a", NameNotes>> }

RowsContent(n) == [kind |-> "rows", n |-> n]
EmptyContent == [kind |-> "empty", n |-> 0]
MalformedContent == [kind |-> "malformed", n |-> 0]

\* What a member of the archive can hold: a header and n data rows, zero
\* bytes, or text the CSV parser rejects.
Contents == {RowsContent(n) : n \in 0..MaxRows} \cup {EmptyContent, MalformedContent}

\* The two names the walk passes over always hold one data row.
ContentsAt(path) ==
    IF path[2] \in {NameDotDetail, NameNotes} THEN {RowsContent(1)} ELSE Contents

Archives ==
    UNION { {fs \in [S -> Contents] : \A path \in S : fs[path] \in ContentsAt(path)} :
            S \in {T \in SUBSET Slots : Cardinality(T) <= MaxFiles} }

\* The archive of the specification's concrete scenario.
ScenarioArchive ==
    <<"a", NameXDetail>> :> RowsContent(3) @@ <<"a", NameXSup>> :> RowsContent(2)
    @@ <<"b", NameYDetail>> :> RowsContent(1) @@ <<"b", NameZSup>> :> RowsContent(1)

Uploads ==
    { [corrupt |-> c, files |-> fs] : c \in BOOLEAN, fs \in Archives \cup {ScenarioArchive} }

\* -------------------------------------------------------------- the state
VARIABLES
    uploaded_zip_file,   \* the archive handed to the run
    pc,                  \* position in compile_csv_files_from_zip
    temp_dir,            \* the scratch directory and the files in it
    log_messages,        \* the log lines appended so far
    visited,             \* paths os.walk has yielded so far
    cur_dir,             \* the directory os.walk is in
    file_pairs,          \* dict base name -> paths, in insertion order
    items,               \* sorted(file_pairs.items())
    idx,                 \* position of the processing loop in items
    all_dataframes,      \* the combined tables, one per processed base name
    source_row_counter,
    success_count,
    skipped_count,
    files_read,          \* paths handed to pd.read_csv
    result               \* what the run returned

vars ==
    <<uploaded_zip_file, pc, temp_dir, log_messages, visited, cur_dir, file_pairs, items,
      idx, all_dataframes, source_row_counter, success_count, skipped_count,
      files_read, result>>

NoPath == <<>>
None == [present |-> FALSE, rows |-> <<>>]
Table(rows) == [present |-> TRUE, rows |-> rows]
NoResult == [returned |-> FALSE, df |-> None, log |-> <<>>]

\* One log line: the message kind, the base name it names, its numbers.
Line(tag) == [tag |-> tag, base |-> <<>>, nums |-> <<>>]
UnitLine(tag, base_name) == [tag |-> tag, base |-> base_name, nums |-> <<>>]
NumLine(tag, n) == [tag |-> tag, base |-> <<>>, nums |-> <<n>>]

RECURSIVE Concat(_)
\* pd.concat(tables, ignore_index=True): the rows of the tables, in order.
Concat(tables) ==
    IF tables = <<>> THEN <<>> ELSE Head(tables) \o Concat(Tail(tables))

RowsOf(path, n) == [i \in 1..n |-> <<path, i>>]

\* pd.read_csv on the file at path.
ReadCsv(path, files) ==
    LET content == files[path] IN
    CASE content.kind = "rows" -> [status |-> "ok", rows |-> RowsOf(path, content.n)]
      [] content.kind = "empty" -> [status |-> "EmptyDataError", rows |-> <<>>]
      [] OTHER -> [status |-> "ParserError", rows |-> <<>>]

\* TemporaryDirectory.__exit__: the directory and everything in it is gone.
CleanupLeak(dir) == dir

Cleanup(dir) == [exists |-> FALSE, files |-> <<>>]

\* A return statement inside the with block.
Return(df) ==
    /\ result' = [returned |-> TRUE, df |-> df, log |-> log_messages']
    /\ temp_dir' = Cleanup(temp_dir)
    /\ pc' = "done"

Init ==
    /\ uploaded_zip_file \in Uploads
    /\ pc = "start"
    /\ temp_dir = [exists |-> FALSE, files |-> <<>>]
    /\ log_messages = <<>>
    /\ visited = {}
    /\ cur_dir = ""
    /\ file_pairs = <<>>
    /\ items = <<>>
    /\ idx = 1
    /\ all_dataframes = <<>>
    /\ source_row_counter = 0
    /\ success_count = 0
    /\ skipped_count = 0
    /\ files_read = {}
    /\ result = NoResult

\* --------------------------------------------------------------- extraction
Begin ==
    /\ pc = "start"
    /\ temp_dir' = [exists |-> TRUE, files |-> <<>>]
    /\ log_messages' = Append(log_messages, Line("uploaded"))
    /\ pc' = "extract"
    /\ UNCHANGED <<uploaded_zip_file, visited, cur_dir, file_pairs, items, idx,
                   all_dataframes, source_row_counter, success_count,
                   skipped_count, files_read, result>>

ExtractOk ==
    /\ pc = "extract"
    /\ ~uploaded_zip_file.corrupt
    /\ temp_dir' = [exists |-> TRUE, files |-> uploaded_zip_file.files]
    /\ log_messages' = log_messages \o <<Line("extracted"), Line("part1")>>
    /\ file_pairs' = <<>>
    /\ pc' = "walk"
    /\ UNCHANGED <<uploaded_zip_file, visited, cur_dir, items, idx, all_dataframes,
                   source_row_counter, success_count, skipped_count,
                   files_read, result>>

ExtractFailContinue ==
    /\ pc = "extract"
    /\ uploaded_zip_file.corrupt
    /\ log_messages' = log_messages \o <<Line("extract_error"), Line("part1")>>
    /\ pc' = "walk"
    /\ UNCHANGED <<uploaded_zip_file, temp_dir, visited, cur_dir, file_pairs, items,
                   idx, all_dataframes, source_row_counter, success_count,
                   skipped_count, files_read, result>>

ExtractFail ==
    /\ pc = "extract"
    /\ uploaded_zip_file.corrupt
    /\ log_messages' = Append(log_messages, Line("extract_error"))
    /\ Return(None)
    /\ UNCHANGED <<uploaded_zip_file, visited, cur_dir, file_pairs, items, idx,
                   all_dataframes, source_row_counter, success_count,
                   skipped_count, files_read>>

\* ----------------------------------------------------------------- grouping
Ignored == [file_type |-> "none", base_name |-> <<>>]

\* The classification without the reserved-prefix test.
ClassifyNoPrefixTest(filename) ==
    IF EndsWith(filename, DETAIL_SUFFIX)
    THEN [file_type |-> "detail", base_name |-> Replace(filename, DETAIL_SUFFIX)]
    ELSE IF EndsWith(filename, SUP_SUFFIX)
    THEN [file_type |-> "sup", base_name |-> Replace(filename, SUP_SUFFIX)]
    ELSE Ignored

\* The file type and base name the walk derives from a file name.
Classify(filename) ==
    IF StartsWith(filename, RESERVED_PREFIX) THEN Ignored
    ELSE IF EndsWith(filename, DETAIL_SUFFIX)
    THEN [file_type |-> "detail", base_name |-> Replace(filename, DETAIL_SUFFIX)]
    ELSE IF EndsWith(filename, SUP_SUFFIX)
    THEN [file_type |-> "sup", base_name |-> Replace(filename, SUP_SUFFIX)]
    ELSE Ignored

Keys(pairs) == {pairs[i].base_name : i \in DOMAIN pairs}

\* file_pairs[base_name][file_type] = path, creating the entry when absent:
\* a new key goes last, an existing key keeps its place.
SetPath(pairs, base_name, file_type, path) ==
    LET with == IF base_name \in Keys(pairs) THEN pairs
                ELSE Append(pairs, [base_name |-> base_name, detail |-> NoPath, sup |-> NoPath])
    IN [i \in DOMAIN with |->
          IF with[i].base_name # base_name THEN with[i]
          ELSE IF file_type = "detail" THEN [with[i] EXCEPT !.detail = path]
          ELSE [with[i] EXCEPT !.sup = path]]

\* os.walk yields the directories one after the other, and the files of a
\* directory in the order the file system lists them.
VisitFile(path) ==
    /\ pc = "walk"
    /\ path \in DOMAIN temp_dir.files
    /\ path \notin visited
    /\ \/ path[1] = cur_dir
       \/ \A q \in DOMAIN temp_dir.files : q[1] = cur_dir => q \in visited
    /\ cur_dir' = path[1]
    /\ visited' = visited \cup {path}
    /\ LET c == Classify(path[2]) IN
         file_pairs' = IF c.file_type = "none" THEN file_pairs
                       ELSE SetPath(file_pairs, c.base_name, c.file_type, path)
    /\ UNCHANGED <<uploaded_zip_file, pc, temp_dir, log_messages, items, idx,
                   all_dataframes, source_row_counter, success_count,
                   skipped_count, files_read, result>>

RECURSIVE Insert(_, _)
Insert(entry, sorted) ==
    IF sorted = <<>> THEN <<entry>>
    ELSE IF StrLess(entry.base_name, Head(sorted).base_name) THEN <<entry>> \o sorted
    ELSE <<Head(sorted)>> \o Insert(entry, Tail(sorted))

RECURSIVE InsertionSort(_)
InsertionSort(pairs) ==
    IF pairs = <<>> THEN <<>> ELSE Insert(Head(pairs), InsertionSort(Tail(pairs)))

\* The items in the order the dict holds them.
Unsorted(pairs) == pairs

\* sorted(file_pairs.items()): ascending by base name (the keys are distinct).
Sorted(pairs) == InsertionSort(pairs)

WalkDone == visited = DOMAIN temp_dir.files

EndWalkEmpty ==
    /\ pc = "walk"
    /\ WalkDone
    /\ file_pairs = <<>>
    /\ log_messages' = log_messages \o
           <<NumLine("grouping", Len(file_pairs)), Line("part2"), Line("no_pairs")>>
    /\ all_dataframes' = <<>>
    /\ source_row_counter' = 0
    /\ success_count' = 0
    /\ skipped_count' = 0
    /\ Return(None)
    /\ UNCHANGED <<uploaded_zip_file, visited, cur_dir, file_pairs, items, idx, files_read>>

EndWalk ==
    /\ pc = "walk"
    /\ WalkDone
    /\ file_pairs # <<>>
    /\ log_messages' = log_messages \o <<NumLine("grouping", Len(file_pairs)), Line("part2")>>
    /\ all_dataframes' = <<>>
    /\ source_row_counter' = 0
    /\ success_count' = 0
    /\ skipped_count' = 0
    /\ items' = Sorted(file_pairs)
    /\ idx' = 1
    /\ pc' = "process"
    /\ UNCHANGED <<uploaded_zip_file, temp_dir, visited, cur_dir, file_pairs, files_read, result>>

\* --------------------------------------------------------------- processing
\* The supplemental step without the addition to the source row counter.
ReadSupUncounted(detail_rows, counter, paths, files) ==
    IF paths.sup = NoPath
    THEN [raised |-> FALSE, table |-> detail_rows, counter |-> counter, read |-> {}]
    ELSE LET sup_df == ReadCsv(paths.sup, files) IN
         CASE sup_df.status = "EmptyDataError" ->
                [raised |-> FALSE, table |-> detail_rows, counter |-> counter,
                 read |-> {paths.sup}]
           [] sup_df.status = "ParserError" ->
                [raised |-> TRUE, table |-> detail_rows, counter |-> counter,
                 read |-> {paths.sup}]
           [] OTHER ->
                IF sup_df.rows # <<>>
                THEN [raised |-> FALSE, table |-> Concat(<<detail_rows, sup_df.rows>>),
                      counter |-> counter, read |-> {paths.sup}]
                ELSE [raised |-> FALSE, table |-> detail_rows, counter |-> counter,
                      read |-> {paths.sup}]

\* The supplemental step of one base name: the inner try block.  An
\* EmptyDataError is swallowed; any other error leaves the block raised.
ReadSup(detail_rows, counter, paths, files) ==
    IF paths.sup = NoPath
    THEN [raised |-> FALSE, table |-> detail_rows, counter |-> counter, read |-> {}]
    ELSE LET sup_df == ReadCsv(paths.sup, files) IN
         CASE sup_df.status = "EmptyDataError" ->
                [raised |-> FALSE, table |-> detail_rows, counter |-> counter,
                 read |-> {paths.sup}]
           [] sup_df.status = "ParserError" ->
                [raised |-> TRUE, table |-> detail_rows, counter |-> counter,
                 read |-> {paths.sup}]
           [] OTHER ->
                IF sup_df.rows # <<>>
                THEN [raised |-> FALSE, table |-> Concat(<<detail_rows, sup_df.rows>>),
                      counter |-> counter + Len(sup_df.rows), read |-> {paths.sup}]
                ELSE [raised |-> FALSE, table |-> detail_rows, counter |-> counter,
                      read |-> {paths.sup}]

\* One base name read with the supplemental file standing in for a missing
\* detail file.
ProcessPathsSupAlone(paths, counter, files) ==
    IF paths.detail # NoPath
    THEN LET detail_df == ReadCsv(paths.detail, files) IN
         IF detail_df.status # "ok"
         THEN [outcome |-> "error", table |-> <<>>, counter |-> counter,
               read |-> {paths.detail}]
         ELSE LET s == ReadSup(detail_df.rows, counter + Len(detail_df.rows), paths, files) IN
              [outcome |-> IF s.raised THEN "error" ELSE "processed",
               table |-> s.table, counter |-> s.counter,
               read |-> {paths.detail} \cup s.read]
    ELSE LET s == ReadSup(<<>>, counter, paths, files) IN
         [outcome |-> IF s.raised THEN "error" ELSE "processed",
          table |-> s.table, counter |-> s.counter, read |-> s.read]

\* One iteration of the processing loop, up to the point where the outcome
\* is known: which files were read, the table built and the value of the
\* source row counter, which is assigned as the reads succeed and keeps its
\* value when a later statement raises.
ProcessPaths(paths, counter, files) ==
    IF paths.detail # NoPath
    THEN LET detail_df == ReadCsv(paths.detail, files) IN
         IF detail_df.status # "ok"
         THEN [outcome |-> "error", table |-> <<>>, counter |-> counter,
               read |-> {paths.detail}]
         ELSE LET s == ReadSup(detail_df.rows, counter + Len(detail_df.rows), paths, files) IN
              [outcome |-> IF s.raised THEN "error" ELSE "processed",
               table |-> s.table, counter |-> s.counter,
               read |-> {paths.detail} \cup s.read]
    ELSE [outcome |-> "missing", table |-> <<>>, counter |-> counter, read |-> {}]

\* The iteration with the handler of the outer try block missing: the error
\* leaves the function, through the with block.
FinishUnitUncaught(r, base_name) ==
    IF r.outcome = "error"
    THEN /\ source_row_counter' = r.counter
         /\ files_read' = files_read \cup r.read
         /\ temp_dir' = Cleanup(temp_dir)
         /\ pc' = "raised"
         /\ UNCHANGED <<log_messages, idx, all_dataframes, success_count,
                        skipped_count, result>>
    ELSE
         /\ source_row_counter' = r.counter
         /\ files_read' = files_read \cup r.read
         /\ idx' = idx + 1
         /\ pc' = "process"
         /\ CASE r.outcome = "processed" ->
                   /\ all_dataframes' = Append(all_dataframes, r.table)
                   /\ log_messages' = Append(log_messages, UnitLine("processed", base_name))
                   /\ success_count' = success_count + 1
                   /\ UNCHANGED skipped_count
              [] r.outcome = "error" ->
                   /\ log_messages' = Append(log_messages, UnitLine("unit_error", base_name))
                   /\ skipped_count' = skipped_count + 1
                   /\ UNCHANGED <<all_dataframes, success_count>>
              [] OTHER ->
                   /\ log_messages' = Append(log_messages, UnitLine("warning", base_name))
                   /\ skipped_count' = skipped_count + 1
                   /\ UNCHANGED <<all_dataframes, success_count>>
         /\ UNCHANGED <<temp_dir, result>>

\* The end of one iteration: the source row counter keeps what the reads
\* added; a success appends its table and is counted, an error or a missing
\* detail file is logged and counted as a skip; the loop goes on with the
\* next base name.
FinishUnit(r, base_name) ==
    /\ source_row_counter' = r.counter
    /\ files_read' = files_read \cup r.read
    /\ idx' = idx + 1
    /\ pc' = "process"
    /\ CASE r.outcome = "processed" ->
              /\ all_dataframes' = Append(all_dataframes, r.table)
              /\ log_messages' = Append(log_messages, UnitLine("processed", base_name))
              /\ success_count' = success_count + 1
              /\ UNCHANGED skipped_count
         [] r.outcome = "error" ->
              /\ log_messages' = Append(log_messages, UnitLine("unit_error", base_name))
              /\ skipped_count' = skipped_count + 1
              /\ UNCHANGED <<all_dataframes, success_count>>
         [] OTHER ->
              /\ log_messages' = Append(log_messages, UnitLine("warning", base_name))
              /\ skipped_count' = skipped_count + 1
              /\ UNCHANGED <<all_dataframes, success_count>>
    /\ UNCHANGED <<temp_dir, result>>

ProcessPair ==
    /\ pc = "process"
    /\ idx <= Len(items)
    /\ LET paths == items[idx] IN
         FinishUnit(ProcessPaths(paths, source_row_counter, temp_dir.files), paths.base_name)
    /\ UNCHANGED <<uploaded_zip_file, visited, cur_dir, file_pairs, items>>

\* -------------------------------------------------------------- compilation
Abs(n) == IF n < 0 THEN -n ELSE n

\* The summary block and its verdict line.
Summary(successes, skips, source_rows, final_df_rows) ==
    <<Line("rule"), Line("title"), Line("rule"),
      NumLine("success_total", successes), NumLine("skipped_total", skips),
      Line("dash"), Line("integrity"),
      NumLine("source_rows", source_rows), NumLine("final_rows", final_df_rows),
      Line("dash"),
      IF final_df_rows = source_rows THEN Line("passed")
      ELSE NumLine("failed", Abs(final_df_rows - source_rows)),
      Line("rule")>>

\* The final stage handing back an empty table when nothing was processed.
CompileEmptyTable(tables, fault, successes, skips, source_rows) ==
    IF tables = <<>>
    THEN [df |-> Table(<<>>), lines |-> <<Line("no_data")>>]
    ELSE IF fault
    THEN [df |-> None, lines |-> <<Line("critical")>>]
    ELSE LET master_df == Concat(tables) IN
         [df |-> Table(master_df),
          lines |-> Summary(successes, skips, source_rows, Len(master_df))]

\* The final stage: the value returned and the lines logged.  fault says
\* whether pd.concat raised.
Compile(tables, fault, successes, skips, source_rows) ==
    IF tables = <<>>
    THEN [df |-> None, lines |-> <<Line("no_data")>>]
    ELSE IF fault
    THEN [df |-> None, lines |-> <<Line("critical")>>]
    ELSE LET master_df == Concat(tables) IN
         [df |-> Table(master_df),
          lines |-> Summary(successes, skips, source_rows, Len(master_df))]

CompileFinal ==
    /\ pc = "process"
    /\ idx > Len(items)
    /\ \E fault \in BOOLEAN :
         /\ fault => all_dataframes # <<>>
         /\ LET c == Compile(all_dataframes, fault, success_count, skipped_count,
                             source_row_counter) IN
              /\ log_messages' = log_messages \o <<Line("part3")>> \o c.lines
              /\ Return(c.df)
    /\ UNCHANGED <<uploaded_zip_file, visited, cur_dir, file_pairs, items, idx,
                   all_dataframes, source_row_counter, success_count,
                   skipped_count, files_read>>

Next ==
    \/ Begin
    \/ ExtractOk
    \/ ExtractFail
    \/ \E path \in DOMAIN temp_dir.files : VisitFile(path)
    \/ EndWalkEmpty
    \/ EndWalk
    \/ ProcessPair
    \/ CompileFinal

Spec == Init /\ [][Next]_vars

\* ------------------------------------------------------------------- claims
HasLine(tag) == \E i \in DOMAIN log_messages : log_messages[i].tag = tag
HasUnitLine(tag, base_name) ==
    \E i \in DOMAIN log_messages :
        log_messages[i].tag = tag /\ log_messages[i].base = base_name

\* The step that processes the base name at items[idx].
UnitStep == pc = "process" /\ idx <= Len(items) /\ idx' = idx + 1
Parses(path) == uploaded_zip_file.files[path].kind = "rows"
FileRows(path) == RowsOf(path, uploaded_zip_file.files[path].n)
SupHasRows(paths) ==
    paths.sup # NoPath /\ Parses(paths.sup) /\ uploaded_zip_file.files[paths.sup].n >= 1
SupIsEmpty(paths) ==
    /\ paths.sup # NoPath
    /\ \/ uploaded_zip_file.files[paths.sup].kind = "empty"
       \/ Parses(paths.sup) /\ uploaded_zip_file.files[paths.sup].n = 0

C1_WithRows ==
    UnitStep /\ items[idx].detail # NoPath /\ Parses(items[idx].detail)
             /\ SupHasRows(items[idx])
    => /\ all_dataframes' = Append(all_dataframes,
              FileRows(items[idx].detail) \o FileRows(items[idx].sup))
       /\ source_row_counter' = source_row_counter
              + Len(FileRows(items[idx].detail)) + Len(FileRows(items[idx].sup))
       /\ success_count' = success_count + 1
       /\ skipped_count' = skipped_count

C1_EmptySup ==
    UnitStep /\ items[idx].detail # NoPath /\ Parses(items[idx].detail)
             /\ SupIsEmpty(items[idx])
    => /\ all_dataframes' = Append(all_dataframes, FileRows(items[idx].detail))
       /\ source_row_counter' = source_row_counter + Len(FileRows(items[idx].detail))
       /\ success_count' = success_count + 1
       /\ skipped_count' = skipped_count

ScenarioRows ==
    RowsOf(<<"a", NameXDetail>>, 3) \o RowsOf(<<"a", NameXSup>>, 2)
    \o RowsOf(<<"b", NameYDetail>>, 1)

C1_Scenario ==
    uploaded_zip_file.files = ScenarioArchive /\ ~uploaded_zip_file.corrupt /\ pc = "done"
    => /\ success_count = 2
       /\ skipped_count = 1
       /\ source_row_counter = 6
       /\ ~HasLine("critical") =>
            /\ result.df = Table(ScenarioRows)
            /\ Len(result.df.rows) = 6
            /\ HasLine("passed")

\* C1: a base name whose detail file parses and whose supplemental file has
\* at least one row yields the detail rows followed by the supplemental rows
\* and adds both row counts to the source row counter; with an empty
\* supplemental file it yields the detail rows alone, adds only their count
\* and still counts as a success.  The scenario archive ends with 2
\* successes, 1 skip, 6 source rows, 6 final rows and the verdict PASSED.
C1_PairCombination ==
    /\ [][C1_WithRows /\ C1_EmptySup]_vars
    /\ []C1_Scenario

C1_Witness ==
    /\ uploaded_zip_file.files = ScenarioArchive
    /\ pc = "done"
    /\ result.df.present
    /\ Len(result.df.rows) = 6

\* The keys of file_pairs in ascending order, found without sorting.
Ascending(pairs) ==
    CHOOSE seq \in [1..Len(pairs) -> Keys(pairs)] :
        \A i, j \in 1..Len(pairs) : i < j => StrLess(seq[i], seq[j])

EntryOf(pairs, base_name) ==
    pairs[CHOOSE i \in DOMAIN pairs : pairs[i].base_name = base_name]

Succeeds(paths) ==
    /\ paths.detail # NoPath
    /\ Parses(paths.detail)
    /\ paths.sup # NoPath => uploaded_zip_file.files[paths.sup].kind # "malformed"

UnitRows(paths) ==
    IF ~Succeeds(paths) THEN <<>>
    ELSE IF SupHasRows(paths) THEN FileRows(paths.detail) \o FileRows(paths.sup)
    ELSE FileRows(paths.detail)

RECURSIVE RowsInOrder(_, _)
RowsInOrder(pairs, keys) ==
    IF keys = <<>> THEN <<>>
    ELSE UnitRows(EntryOf(pairs, Head(keys))) \o RowsInOrder(pairs, Tail(keys))

\* C2: the rows of the returned master table are the tables of the
\* successfully processed base names in ascending order of base name, detail
\* rows before supplemental rows, whatever the order of the walk was.
C2_SortedRowOrder ==
    pc = "process" \/ (pc = "done" /\ result.df.present)
    => LET done == IF pc = "done" THEN Len(items) ELSE idx - 1 IN
       /\ Concat(all_dataframes) =
              RowsInOrder(file_pairs, SubSeq(Ascending(file_pairs), 1, done))
       /\ pc = "done" => result.df.rows = RowsInOrder(file_pairs, Ascending(file_pairs))

C2_Witness ==
    /\ pc = "done"
    /\ result.df.present
    /\ Len(file_pairs) >= 2
    /\ StrLess(file_pairs[2].base_name, file_pairs[1].base_name)
    /\ UnitRows(file_pairs[1]) # <<>>
    /\ UnitRows(file_pairs[2]) # <<>>

C3_Step ==
    UnitStep /\ items[idx].detail = NoPath
    => /\ all_dataframes' = all_dataframes
       /\ source_row_counter' = source_row_counter
       /\ skipped_count' = skipped_count + 1
       /\ success_count' = success_count
       /\ files_read' = files_read
       /\ pc' = "process"

C3_Never ==
    \A i \in DOMAIN file_pairs :
        (pc \in {"process", "done"} /\ file_pairs[i].detail = NoPath)
        => /\ file_pairs[i].sup \notin files_read
           /\ \A k \in DOMAIN result.df.rows : result.df.rows[k][1] # file_pairs[i].sup
           /\ \A t \in DOMAIN all_dataframes : \A k \in DOMAIN all_dataframes[t] :
                  all_dataframes[t][k][1] # file_pairs[i].sup

\* C3: a base name without a detail file adds no rows and nothing to the
\* source row counter, adds exactly one to the skip count, and its
\* supplemental file is never read.
C3_MissingDetailSkipped ==
    /\ [][C3_Step]_vars
    /\ []C3_Never

C3_Witness ==
    /\ pc = "process"
    /\ idx > 1
    /\ items[idx - 1].detail = NoPath
    /\ items[idx - 1].sup # NoPath
    /\ uploaded_zip_file.files[items[idx - 1].sup].kind = "rows"
    /\ skipped_count >= 1

\* C4: a finished run has returned the log, and has returned a table exactly
\* when some base name succeeded and the final concatenation did not raise;
\* after a failed extraction, with no pairs or with no success there is no
\* table.
C4_TableIffSuccess ==
    /\ pc \in {"start", "extract", "walk", "process", "done"}
    /\ pc = "done" =>
         /\ result.returned
         /\ result.log = log_messages
         /\ result.log # <<>>
         /\ result.df.present <=> (success_count >= 1 /\ ~HasLine("critical"))
         /\ ~result.df.present => result.df = None
         /\ uploaded_zip_file.corrupt => ~result.df.present
         /\ file_pairs = <<>> => ~result.df.present

C4_Witness == pc = "done" /\ result.returned /\ result.df.present /\ success_count >= 1

StageTags == {"extracted", "part1", "grouping", "part2", "part3"}

\* C5: when extraction fails the run returns no table, the extraction
\* failure line is the last line of the log, and no stage after extraction
\* runs or logs.
C5_ExtractionFailureStops ==
    uploaded_zip_file.corrupt
    => /\ pc \in {"start", "extract", "done"}
       /\ \A i \in DOMAIN log_messages : log_messages[i].tag \notin StageTags
       /\ pc = "done" =>
            /\ ~result.df.present
            /\ result.log # <<>>
            /\ result.log[Len(result.log)].tag = "extract_error"
            /\ \A i \in DOMAIN result.log :
                   result.log[i].tag = "extract_error" => i = Len(result.log)
            /\ file_pairs = <<>> /\ visited = {} /\ files_read = {}

C5_Witness == uploaded_zip_file.corrupt /\ pc = "done" /\ HasLine("extract_error")

PassedOver(filename) ==
    \/ StartsWith(filename, RESERVED_PREFIX)
    \/ ~EndsWith(filename, DETAIL_SUFFIX) /\ ~EndsWith(filename, SUP_SUFFIX)

C6_Step ==
    \A path \in DOMAIN uploaded_zip_file.files :
        (pc = "walk" /\ path \notin visited /\ path \in visited' /\ PassedOver(path[2]))
        => file_pairs' = file_pairs

C6_Never ==
    \A path \in DOMAIN uploaded_zip_file.files :
        PassedOver(path[2])
        => /\ path \notin files_read
           /\ \A i \in DOMAIN file_pairs :
                  file_pairs[i].detail # path /\ file_pairs[i].sup # path
           /\ \A k \in DOMAIN result.df.rows : result.df.rows[k][1] # path
           /\ pc = "done" /\ ~uploaded_zip_file.corrupt =>
                  success_count + skipped_count <=
                      Cardinality({q \in DOMAIN uploaded_zip_file.files : ~PassedOver(q[2])})

\* C6: visiting a file whose name begins with the reserved prefix, or ends
\* in neither suffix, leaves the base-name mapping unchanged; such a file is
\* never grouped, never read and never counted.
C6_PassedOverFilesIgnored ==
    /\ [][C6_Step]_vars
    /\ []C6_Never

C6_Witness ==
    /\ pc = "process"
    /\ <<"a", NameDotDetail>> \in visited
    /\ <<"a", NameNotes>> \in visited
    /\ Len(file_pairs) = 1

\* C7: once the run has returned, on whichever path, the scratch directory
\* it created no longer exists.
C7_ScratchRemoved ==
    /\ pc \in {"extract", "walk", "process"} => temp_dir.exists
    /\ pc = "done" => ~temp_dir.exists

C7_Witness ==
    /\ pc = "done"
    /\ result.returned
    /\ ~temp_dir.exists
    /\ HasLine("critical")

\* C8: the base name recorded for a file is its name with the trailing
\* suffix removed and nothing else changed: base name followed by the suffix
\* is the file name.
C8_BaseNameIsNameMinusSuffix ==
    \A i \in DOMAIN file_pairs :
        /\ file_pairs[i].detail # NoPath
             => file_pairs[i].base_name \o DETAIL_SUFFIX = file_pairs[i].detail[2]
        /\ file_pairs[i].sup # NoPath
             => file_pairs[i].base_name \o SUP_SUFFIX = file_pairs[i].sup[2]

ParseFails(paths) ==
    /\ paths.detail # NoPath
    /\ \/ ~Parses(paths.detail)
       \/ paths.sup # NoPath /\ uploaded_zip_file.files[paths.sup].kind = "malformed"

C9_Step ==
    UnitStep /\ ParseFails(items[idx])
    => /\ skipped_count' = skipped_count + 1
       /\ success_count' = success_count
       /\ all_dataframes' = all_dataframes
       /\ log_messages' = Append(log_messages, UnitLine("unit_error", items[idx].base_name))
       /\ pc' = "process"

C9_Totals ==
    /\ pc \in {"start", "extract", "walk", "process", "done"}
    /\ pc = "process" => success_count + skipped_count = idx - 1
    /\ pc = "done" /\ file_pairs # <<>> =>
         /\ idx = Len(items) + 1
         /\ success_count + skipped_count = Cardinality(Keys(file_pairs))

\* C9: a parse failure of a detail file or of a malformed supplemental file
\* is logged as an error and counted as one skip, appends no table and does
\* not stop the run: every later base name is processed, and at the end
\* successes plus skips is the number of base names discovered.
C9_ParseFailureSkipsUnit ==
    /\ [][C9_Step]_vars
    /\ []C9_Totals

C9_Witness ==
    /\ pc = "done"
    /\ Len(items) >= 2
    /\ HasUnitLine("unit_error", items[1].base_name)
    /\ HasUnitLine("processed", items[2].base_name)
    /\ result.df.present

\* C10: after each base name the source row counter is the number of rows
\* in the combined tables, so a returned master table has as many rows as
\* the source row counter says and the verdict is PASSED.
C10_CounterMatchesTables ==
    /\ pc = "process" => source_row_counter = Len(Concat(all_dataframes))
    /\ pc = "done" /\ result.df.present =>
         /\ Len(result.df.rows) = source_row_counter
         /\ HasLine("passed")

====
